---- MODULE Spec2Model ----
(***************************************************************************)
(* Model of src/03_etl_pipelines/pipeline_orchestrator.py: Task (retry      *)
(* state machine), DAG (task dict, dependency wiring, cycle validation)    *)
(* and DAG.run (execution order, upstream gating, execution history).      *)
(*                                                                         *)
(* Task objects live in `heap` (a handle is an index into it), so that two *)
(* Task objects with the same task_id are told apart, as Python does.      *)
(* None is the empty tuple; a timestamp t is <<t>>; the value a work       *)
(* function returns on its k-th call for task id is <<"result", id, k>>    *)
(* and the text of the error it raises is <<"error", id, k>>.  A work      *)
(* function is opaque to the orchestrator; a Task holds its behaviour as   *)
(* the number f of the first call of a Task.run on which it returns (it    *)
(* raises on calls 1..f-1); the factories' functions that read the context *)
(* behave as the context of each Task.run decides.                         *)
(*                                                                         *)
(* Also modelled: PowerAppsPipelineOrchestrator of                         *)
(* src/05_capstone/powerapps_data_pipeline/pipeline_orchestrator.py        *)
(* (log_step, run_step, run_full_pipeline, generate_pipeline_report),      *)
(* whose subprocess is opaque: a command exits with code 0, exits with     *)
(* another code, cannot be launched, or the wait for it is interrupted.    *)
(* run_step and run_full_pipeline are split at each wait for a command, so *)
(* that the log between STARTED and the step's end is a state.  The report *)
(* file is the record                                                      *)
(* json.dump writes; the warehouse database is there with its tables,      *)
(* there but unreadable, or absent, and opening the report file succeeds   *)
(* or raises.                                                              *)
(***************************************************************************)
EXTENDS Integers, Sequences, FiniteSets, TLC

\* ---------------------------------------------------------------- bounds
MaxObj == 3        \* Task objects constructed by the caller
MaxDeps == 3       \* dependency edges made by set_dependencies and add_upstream
MaxRuns == 2       \* DAG.run calls that pass validation
MaxTaskRuns == 2   \* direct Task.run calls
MaxRetries == 2    \* largest retries argument given to Task(...)
MaxWires == 1      \* add_upstream calls made by the caller itself
MaxCalls == 3      \* calls made on the PowerAppsPipelineOrchestrator

\* Task.__init__'s default for retries
DefaultRetries == 3

\* Task.__init__'s default for retry_delay, in seconds
DefaultRetryDelay == 5

FreeIds == <<"a", "b", "c">>
EtlIds == <<"extract", "transform", "validate", "load">>
BranchIds == <<"start", "process_good", "process_bad", "review_needed", "join">>

None == <<>>

VARIABLES
    heap,               \* the Task objects, by handle
    tasks,              \* DAG.tasks: insertion-ordered dict, task_id -> handle
    execution_history,  \* DAG.execution_history
    clock,              \* number of datetime.now() readings so far
    pc,                 \* "idle" | "dag_loop" | "task_run" | "run_step"
    run,                \* frame of the latest DAG.run
    trun,               \* frame of the latest Task.run
    direct_runs,        \* direct Task.run calls made so far
    last,               \* outcome of the latest completed call
    orchestrator,       \* the PowerAppsPipelineOrchestrator object
    reports,            \* what each generate_pipeline_report call wrote: <<report>>,
                        \* or None when the report file could not be opened
    waiting,            \* frame of the run_step that waits for its command
    wires,              \* add_upstream calls made by the caller so far
    calls_made          \* calls made on the orchestrator so far

vars == <<heap, tasks, execution_history, clock, pc, run, trun, direct_runs, last,
          orchestrator, reports, waiting, wires, calls_made>>

\* ------------------------------------------------------------------ Task

\* Task.__init__
Task(task_id, function, retries) ==
    [task_id |-> task_id, function |-> function, retries |-> retries,
     retry_delay |-> DefaultRetryDelay,
     upstream_tasks |-> <<>>, downstream_tasks |-> <<>>,
     status |-> "pending", start_time |-> None, end_time |-> None,
     result |-> None, error |-> None]

\* Task.add_upstream: self.upstream_tasks.append(task);
\* task.downstream_tasks.append(self)
add_upstream(h, self, task) ==
    LET h1 == [h EXCEPT ![self].upstream_tasks = Append(@, task)]
    IN  [h1 EXCEPT ![task].downstream_tasks = Append(@, self)]

\* a Task.run that records its start time but not the running status
task_run_enter_unmarked(h, o, now) ==
    [h EXCEPT ![o].start_time = <<now>>]

\* Task.run, lines 47-48
task_run_enter(h, o, now) ==
    [h EXCEPT ![o].status = "running", ![o].start_time = <<now>>]

\* Task.run, line 55: whether the k-th call (k counted from 1) of work
\* function f returns; it raises otherwise
FunctionReturns(f, k) == k >= f

\* a retry loop that makes a first attempt whatever retries is
HasAttemptOnce(attempt, retries) == attempt < retries \/ attempt = 0

\* a retry loop that is one iteration short: range(self.retries - 1)
HasAttemptShort(attempt, retries) == attempt < retries - 1

\* Task.run, line 52: for attempt in range(self.retries)
HasAttempt(attempt, retries) == attempt < retries

\* a last attempt that is retried like the others: attempt < self.retries
RetryAgainAlways(attempt, retries) == attempt < retries

\* Task.run, line 68: if attempt < self.retries - 1
RetryAgain(attempt, retries) == attempt < retries - 1

\* a wait that grows with the attempt: time.sleep(self.retry_delay * (attempt + 1))
retry_wait_backoff(delay, attempt) == delay * (attempt + 1)

\* Task.run, line 70: time.sleep(self.retry_delay), after attempt `attempt`
\* (counted from 0)
retry_wait(delay, attempt) == delay

\* Task.run, lines 57-59
task_run_success(h, o, k, now) ==
    [h EXCEPT ![o].result = <<"result", h[o].task_id, k>>,
              ![o].status = "success",
              ![o].end_time = <<now>>]

\* Task.run, line 67
task_run_error(h, o, k) ==
    [h EXCEPT ![o].error = <<"error", h[o].task_id, k>>]

\* Task.run, lines 72-73
task_run_failed(h, o, now) ==
    [h EXCEPT ![o].status = "failed", ![o].end_time = <<now>>]

\* ------------------------------------------------------------------- DAG

Range(s) == {s[i] : i \in 1..Len(s)}

HasKey(d, k) == \E i \in 1..Len(d) : d[i].key = k

\* DAG.get_task: self.tasks.get(task_id); None, or <<handle>>
get_task(d, k) ==
    IF HasKey(d, k)
    THEN <<d[CHOOSE i \in 1..Len(d) : d[i].key = k].obj>>
    ELSE None

\* DAG.add_task: self.tasks[task.task_id] = task (a dict keeps the position
\* of a key it already holds)
add_task(d, k, o) ==
    IF HasKey(d, k)
    THEN [i \in 1..Len(d) |-> IF d[i].key = k THEN [key |-> k, obj |-> o] ELSE d[i]]
    ELSE Append(d, [key |-> k, obj |-> o])

\* self.tasks.values()
Values(d) == [i \in 1..Len(d) |-> d[i].obj]

RECURSIVE RootsOf(_, _, _)
RootsOf(h, s, i) ==
    IF i > Len(s) THEN <<>>
    ELSE IF h[s[i]].upstream_tasks = <<>>
         THEN <<s[i]>> \o RootsOf(h, s, i + 1)
         ELSE RootsOf(h, s, i + 1)

RECURSIVE WiredRootsOf(_, _, _)
WiredRootsOf(h, s, i) ==
    IF i > Len(s) THEN <<>>
    ELSE IF h[s[i]].upstream_tasks = <<>> /\ h[s[i]].downstream_tasks # <<>>
         THEN <<s[i]>> \o WiredRootsOf(h, s, i + 1)
         ELSE WiredRootsOf(h, s, i + 1)

\* a root filter that leaves out the tasks no dependency was wired to
get_root_tasks_wired(h, d) == WiredRootsOf(h, Values(d), 1)

\* DAG.get_root_tasks
get_root_tasks(h, d) == RootsOf(h, Values(d), 1)

\* DAG.validate_dag.has_cycle, threading visited / recursion_stack
RECURSIVE has_cycle(_, _, _, _, _)
RECURSIVE has_cycle_downstream(_, _, _, _, _, _)

\* a has_cycle that reports the path walked without the id met again
has_cycle_short(h, o, path, visited, stack) ==
    LET id == h[o].task_id IN
    IF id \in stack
    THEN [cycle |-> TRUE, visited |-> visited, stack |-> stack, cycle_path |-> path]
    ELSE IF id \in visited
    THEN [cycle |-> FALSE, visited |-> visited, stack |-> stack, cycle_path |-> <<>>]
    ELSE LET r == has_cycle_downstream(h, h[o].downstream_tasks, 1,
                                       Append(path, id),
                                       visited \cup {id}, stack \cup {id})
         IN  IF r.cycle THEN r ELSE [r EXCEPT !.stack = @ \ {id}]

has_cycle(h, o, path, visited, stack) ==
    LET id == h[o].task_id IN
    IF id \in stack
    THEN [cycle |-> TRUE, visited |-> visited, stack |-> stack,
          cycle_path |-> Append(path, id)]
    ELSE IF id \in visited
    THEN [cycle |-> FALSE, visited |-> visited, stack |-> stack, cycle_path |-> <<>>]
    ELSE LET r == has_cycle_downstream(h, h[o].downstream_tasks, 1,
                                       Append(path, id),
                                       visited \cup {id}, stack \cup {id})
         IN  IF r.cycle THEN r ELSE [r EXCEPT !.stack = @ \ {id}]

has_cycle_downstream(h, ds, i, path, visited, stack) ==
    IF i > Len(ds)
    THEN [cycle |-> FALSE, visited |-> visited, stack |-> stack, cycle_path |-> <<>>]
    ELSE LET r == has_cycle(h, ds[i], path, visited, stack)
         IN  IF r.cycle THEN r
             ELSE has_cycle_downstream(h, ds, i + 1, path, r.visited, r.stack)

\* DAG.validate_dag, lines 149-155: the loop over the root tasks
RECURSIVE validate_roots(_, _, _, _, _)
validate_roots(h, roots, i, visited, stack) ==
    IF i > Len(roots)
    THEN [cycle |-> FALSE, visited |-> visited, stack |-> stack, cycle_path |-> <<>>]
    ELSE LET r == has_cycle(h, roots[i], <<>>, visited, stack)
         IN  IF r.cycle THEN r
             ELSE validate_roots(h, roots, i + 1, r.visited, r.stack)

validate_dag_result(h, d) == validate_roots(h, get_root_tasks(h, d), 1, {}, {})

\* DAG.validate_dag
validate_dag(h, d) == ~validate_dag_result(h, d).cycle

\* DAG.run.visit, threading visited / execution_order
RECURSIVE visit(_, _, _)
RECURSIVE visit_upstream(_, _, _, _)

\* a visit that walks the downstream tasks: for downstream in
\* task.downstream_tasks
visit_downstream(h, o, st) ==
    IF h[o].task_id \in st.visited THEN st
    ELSE LET s2 == visit_upstream(h, h[o].downstream_tasks, 1, st)
         IN  [visited |-> s2.visited \cup {h[o].task_id},
              order |-> Append(s2.order, o)]

visit(h, o, st) ==
    IF h[o].task_id \in st.visited THEN st
    ELSE LET s2 == visit_upstream(h, h[o].upstream_tasks, 1, st)
         IN  [visited |-> s2.visited \cup {h[o].task_id},
              order |-> Append(s2.order, o)]

visit_upstream(h, us, i, st) ==
    IF i > Len(us) THEN st
    ELSE visit_upstream(h, us, i + 1, visit(h, us[i], st))

\* DAG.run, lines 187-188: the tasks the order is computed from
OrderSeeds(h, d) == get_root_tasks(h, d)

\* DAG.run, lines 176-188
execution_order(h, d) ==
    visit_upstream(h, OrderSeeds(h, d), 1, [visited |-> {}, order |-> <<>>]).order

\* DAG.run, line 193
upstream_status(h, o) ==
    [i \in 1..Len(h[o].upstream_tasks) |-> h[h[o].upstream_tasks[i]].status]

AllSuccess(us) == \A i \in 1..Len(us) : us[i] = "success"

\* DAG.run, line 194
ShouldExecute(us) == us # <<>> /\ AllSuccess(us)

\* DAG.run, line 203
ShouldSkip(us) == us # <<>>

\* DAG.run, lines 216-230: the value `duration` is left with by the summary loop
SummaryDuration(h, order, total) ==
    IF order = <<>>
    THEN [type |-> "float", seconds |-> total, text |-> "none"]
    ELSE LET t == h[order[Len(order)]] IN
         IF t.start_time # None /\ t.end_time # None
         THEN [type |-> "str", seconds |-> t.end_time[1] - t.start_time[1],
               text |-> "task_duration"]
         ELSE [type |-> "str", seconds |-> 0, text |-> "empty"]

\* a snapshot that leaves out the tasks still pending
task_status_processed(h, order) ==
    [id \in {h[o].task_id : o \in {p \in Range(order) : h[p].status # "pending"}} |->
        h[CHOOSE o \in Range(order) : h[o].task_id = id].status]

\* DAG.run, line 236
task_status(h, order) ==
    [id \in {h[o].task_id : o \in Range(order)} |->
        h[order[CHOOSE i \in 1..Len(order) :
                 /\ h[order[i]].task_id = id
                 /\ \A j \in (i + 1)..Len(order) : h[order[j]].task_id # id]].status]

\* DAG.run, lines 232-237
execution_record(h, r, duration) ==
    [dag_id |-> "dag",
     execution_date |-> r.execution_date,
     duration |-> duration,
     task_status |-> task_status(h, r.order)]

\* ---------------------------------------------------------------- frames

NoRun == [n |-> 0, order |-> <<>>, i |-> 1, results |-> <<>>,
          execution_date |-> None, start_time |-> None, broke |-> FALSE,
          invoked |-> {}]
NoTaskRun == [obj |-> None, function |-> 0, attempt |-> 0, calls |-> 0, sleeps |-> 0,
              slept |-> 0, caller |-> "none"]
Returned(op, ret) == [op |-> op, raised |-> None, ret |-> ret]
Raised(op, err) == [op |-> op, raised |-> err, ret |-> None]

\* --------------------------------------------- PowerAppsPipelineOrchestrator

\* PowerAppsPipelineOrchestrator.__init__
NewOrchestrator == [pipeline_log |-> <<>>, start_time |-> None, end_time |-> None]

\* PowerAppsPipelineOrchestrator.log_step: the entry is appended; its
\* timestamp is the clock reading `now`
log_step(o, now, step, status, details) ==
    [o EXCEPT !.pipeline_log =
        Append(@, [timestamp |-> now, step |-> step, status |-> status,
                   details |-> details])]

\* what subprocess.run does with a command: it returns with exit code 0,
\* returns with another exit code, raises an Exception (the command cannot
\* be launched), or the wait for the command is interrupted (SIGINT:
\* KeyboardInterrupt, which is not an Exception)
Outcomes == {"exit_0", "exit_nonzero", "raises", "interrupted"}

\* the command handed to run_step: a list of strings, or a value that
\* ' '.join rejects (None, a list with an element that is not a str)
Commands == {"strings", "not_strings"}

\* run_step, line 55: ' '.join(command) is evaluated before anything is
\* logged and outside the try; it raises TypeError unless this holds
Joins(command) == command = "strings"

\* run_step, line 55: the STARTED entry
run_step_started(o, now, step_name) ==
    log_step(o, now, step_name, "STARTED", "Running")

\* run_step, lines 57-75, from the end of subprocess.run on: the
\* orchestrator and the clock after the call, and the value returned or
\* the exception raised
run_step_ended(o, now, step_name, outcome) ==
    IF outcome = "exit_0"
    THEN [orchestrator |-> log_step(o, now + 1, step_name, "COMPLETED", "Output"),
          ret |-> <<TRUE>>, raised |-> None, now |-> now + 1]
    ELSE IF outcome = "exit_nonzero"
    THEN [orchestrator |-> log_step(o, now + 1, step_name, "FAILED", "Error"),
          ret |-> <<FALSE>>, raised |-> None, now |-> now + 1]
    ELSE IF outcome = "raises"
    THEN [orchestrator |-> log_step(o, now + 1, step_name, "FAILED", "Exception"),
          ret |-> <<FALSE>>, raised |-> None, now |-> now + 1]
    ELSE [orchestrator |-> o, ret |-> None, raised |-> <<"KeyboardInterrupt">>,
          now |-> now]

RECURSIVE CountStatus(_, _)
CountStatus(log, status) ==
    IF log = <<>> THEN 0
    ELSE (IF Head(log).status = status THEN 1 ELSE 0) + CountStatus(Tail(log), status)

\* generate_pipeline_report, line 154: completed / len * 100, as a fraction
success_rate(log) ==
    IF log # <<>>
    THEN [num |-> CountStatus(log, "COMPLETED") * 100, den |-> Len(log)]
    ELSE [num |-> 0, den |-> 1]

\* the warehouse database when the report is made: absent, there with its
\* three tables, or there and failing a query
Databases == {"absent", "counts", "error"}

\* PowerAppsPipelineOrchestrator.generate_pipeline_report, lines 138-183: the
\* report that json.dump writes
pipeline_report(o, db) ==
    [start_time |-> o.start_time,
     end_time |-> o.end_time,
     duration_seconds |-> IF o.end_time # None /\ o.start_time # None
                          THEN <<o.end_time[1] - o.start_time[1]>>
                          ELSE None,
     steps |-> o.pipeline_log,
     total_steps |-> Len(o.pipeline_log),
     steps_completed |-> CountStatus(o.pipeline_log, "COMPLETED"),
     steps_failed |-> CountStatus(o.pipeline_log, "FAILED"),
     success_rate |-> success_rate(o.pipeline_log),
     database |-> db]

\* PowerAppsPipelineOrchestrator.generate_pipeline_report: what the call
\* wrote (nothing when opening the file raises), whether the call raised, and
\* the clock after the call (the file name reads it once)
generate_pipeline_report(o, now, db, writable) ==
    [written |-> <<IF writable THEN <<pipeline_report(o, db)>> ELSE None>>,
     raised |-> ~writable,
     now |-> now + 1]

\* the step names of run_full_pipeline and the details it logs when one fails
StepNames == <<"Generate Sample Data", "Transform Data", "Load to Database">>
FailureDetails == <<"Failed at data generation", "Failed at transformation",
                    "Failed at database load">>

\* a pipeline that goes on to the next step whatever a step returned
step_failed_never(success) == FALSE

\* run_full_pipeline, lines 92, 103, 114: if not success
step_failed(success) == ~success

\* a run_full_pipeline that makes its report last, after end_time is set and
\* the pipeline is logged COMPLETED
run_full_pipeline_end_report_last(o, now, db, writable) ==
    LET ended == [o EXCEPT !.end_time = <<now + 1>>]
        logged == log_step(ended, now + 2, "Pipeline", "COMPLETED", "Total duration")
        g == generate_pipeline_report(logged, now + 2, db, writable)
    IN  [orchestrator |-> logged, now |-> g.now, written |-> g.written,
         ret |-> IF g.raised THEN None ELSE <<TRUE>>,
         raised |-> IF g.raised THEN <<"OSError">> ELSE None,
         i |-> 0]

\* run_full_pipeline, lines 120-133, after the third step succeeded: the
\* report, then end_time, then the Pipeline COMPLETED entry
run_full_pipeline_end(o, now, db, writable) ==
    LET g == generate_pipeline_report(o, now, db, writable) IN
    IF g.raised
    THEN [orchestrator |-> o, now |-> g.now, written |-> g.written,
          ret |-> None, raised |-> <<"OSError">>, i |-> 0]
    ELSE LET ended == [o EXCEPT !.end_time = <<g.now + 1>>]
         IN  [orchestrator |-> log_step(ended, g.now + 2, "Pipeline", "COMPLETED",
                                        "Total duration"),
              now |-> g.now + 2,
              written |-> g.written,
              ret |-> <<TRUE>>,
              raised |-> None,
              i |-> 0]

\* run_full_pipeline, lines 89-133, from the end of the command of step i up
\* to the wait for the next command (i is then that step) or to the end of
\* the call (i is then 0): the orchestrator, the clock, the reports written
\* and the value returned or the exception raised
run_full_pipeline_resumed(o, now, i, outcome, db, writable) ==
    LET r == run_step_ended(o, now, StepNames[i], outcome) IN
    IF r.raised # None
    THEN [orchestrator |-> r.orchestrator, now |-> r.now, written |-> <<>>,
          ret |-> None, raised |-> r.raised, i |-> 0]
    ELSE IF step_failed(r.ret[1])
    THEN [orchestrator |-> log_step(r.orchestrator, r.now + 1, "Pipeline", "FAILED",
                                    FailureDetails[i]),
          now |-> r.now + 1, written |-> <<>>, ret |-> <<FALSE>>, raised |-> None,
          i |-> 0]
    ELSE IF i < Len(StepNames)
    THEN [orchestrator |-> run_step_started(r.orchestrator, r.now + 1, StepNames[i + 1]),
          now |-> r.now + 1, written |-> <<>>, ret |-> None, raised |-> None,
          i |-> i + 1]
    ELSE run_full_pipeline_end(r.orchestrator, r.now, db, writable)

\* the entries the caller logs with log_step itself
LoggedSteps == {"Test Step"}
Statuses == {"STARTED", "COMPLETED", "FAILED"}

NoWait == [step_name |-> None, caller |-> "none", i |-> 0]

\* ----------------------------------------------------------------- state

\* DAG.__init__: no task, no history; PowerAppsPipelineOrchestrator.__init__
Init ==
    /\ heap = <<>>
    /\ tasks = <<>>
    /\ execution_history = <<>>
    /\ clock = 0
    /\ pc = "idle"
    /\ run = NoRun
    /\ trun = NoTaskRun
    /\ direct_runs = 0
    /\ last = Returned("init", None)
    /\ orchestrator = NewOrchestrator
    /\ reports = <<>>
    /\ waiting = NoWait
    /\ wires = 0
    /\ calls_made = 0

RECURSIVE EdgeCount(_, _)
EdgeCount(h, i) ==
    IF i = 0 THEN 0 ELSE Len(h[i].upstream_tasks) + EdgeCount(h, i - 1)

\* the graph is built before the first run
Building == pc = "idle" /\ clock = 0

\* dag.add_task(task), lines 91-93, for any Task object the caller has made:
\* one the DAG does not hold, one it holds, or one it held until another
\* task with the same id replaced it
AddTask(o) ==
    /\ Building
    /\ tasks' = add_task(tasks, heap[o].task_id, o)
    /\ last' = Returned("add_task", None)
    /\ UNCHANGED <<heap, execution_history, clock, pc, run, trun, direct_runs,
                   orchestrator, reports, waiting, wires, calls_made>>

\* t = Task(id, function, retries), with any id, used before or not
NewTask(id, function, retries) ==
    /\ Building
    /\ Len(heap) < MaxObj
    /\ heap' = Append(heap, Task(id, function, retries))
    /\ last' = Returned("Task", None)
    /\ UNCHANGED <<tasks, execution_history, clock, pc, run, trun, direct_runs,
                   orchestrator, reports, waiting, wires, calls_made>>

\* self.add_upstream(task), called by the caller on two Task objects, held
\* by the DAG or not
AddUpstream(self, task) ==
    /\ Building
    /\ wires < MaxWires
    /\ EdgeCount(heap, Len(heap)) < MaxDeps
    /\ heap' = add_upstream(heap, self, task)
    /\ wires' = wires + 1
    /\ last' = Returned("add_upstream", None)
    /\ UNCHANGED <<tasks, execution_history, clock, pc, run, trun, direct_runs,
                   orchestrator, reports, waiting, calls_made>>

\* DAG.set_dependencies, lines 101-104: both tasks are found
DependencyFound(d, upstream_id, downstream_id) ==
    get_task(d, upstream_id) # None /\ get_task(d, downstream_id) # None

\* DAG.set_dependencies, line 105
set_dependencies(h, d, upstream_id, downstream_id) ==
    add_upstream(h, get_task(d, downstream_id)[1], get_task(d, upstream_id)[1])

\* a set_dependencies that returns without raising when a task is missing
SetDependenciesSilent(upstream_id, downstream_id) ==
    /\ Building
    /\ EdgeCount(heap, Len(heap)) < MaxDeps
    /\ IF DependencyFound(tasks, upstream_id, downstream_id)
       THEN heap' = set_dependencies(heap, tasks, upstream_id, downstream_id)
       ELSE heap' = heap
    /\ last' = Returned("set_dependencies", None)
    /\ UNCHANGED <<tasks, execution_history, clock, pc, run, trun, direct_runs, orchestrator, reports, waiting, wires, calls_made>>

\* DAG.set_dependencies
SetDependencies(upstream_id, downstream_id) ==
    /\ Building
    /\ EdgeCount(heap, Len(heap)) < MaxDeps
    /\ IF DependencyFound(tasks, upstream_id, downstream_id)
       THEN /\ heap' = set_dependencies(heap, tasks, upstream_id, downstream_id)
            /\ last' = Returned("set_dependencies", None)
       ELSE /\ heap' = heap
            /\ last' = Raised("set_dependencies", <<"ValueError", "Task not found">>)
    /\ UNCHANGED <<tasks, execution_history, clock, pc, run, trun, direct_runs, orchestrator, reports, waiting, wires, calls_made>>

\* the behaviours of the work functions of the factories' tasks in one
\* Task.run: the function returns on its first call, or it raises on every
\* call of that Task.run
FactoryFunctions == {1, DefaultRetries + 1}

\* the factory tasks whose work function reads the context it is handed:
\* transform reads context['extracted_data'], validate reads
\* context['transformed_data']['quality_score'], load reads
\* context['validated_data']
ContextReaders == {"transform", "validate", "load"}

\* how the work function of task o can behave in a Task.run whose context is
\* the caller's: a function that reads the context returns or raises as that
\* context decides, whatever it did in an earlier Task.run
ContextBehaviours(h, o) ==
    IF h[o].task_id \in ContextReaders THEN FactoryFunctions ELSE {h[o].function}

\* the behaviours the tasks `ids` of a factory are created with: the
\* behaviour of a function that reads the context is that under a context
\* holding what it reads, which is to return; at most one of the other
\* functions raises
FactoryBehaviours(ids) ==
    {fns \in [1..Len(ids) -> FactoryFunctions] :
        /\ \A i \in 1..Len(ids) : ids[i] \in ContextReaders => fns[i] = 1
        /\ \A i, j \in 1..Len(ids) : (fns[i] # 1 /\ fns[j] # 1) => i = j}

RECURSIVE NewTasks(_, _, _)
NewTasks(ids, fns, i) ==
    IF i > Len(ids) THEN <<>>
    ELSE <<Task(ids[i], fns[i], DefaultRetries)>> \o NewTasks(ids, fns, i + 1)

RECURSIVE AddAll(_, _)
AddAll(ids, i) ==
    IF i = 0 THEN <<>> ELSE add_task(AddAll(ids, i - 1), ids[i], i)

RECURSIVE WireAll(_, _, _, _)
WireAll(h, d, edges, i) ==
    IF i = 0 THEN h
    ELSE set_dependencies(WireAll(h, d, edges, i - 1), d, edges[i][1], edges[i][2])

EtlEdges == <<<<"extract", "transform">>, <<"transform", "validate">>,
              <<"validate", "load">>>>

BranchEdges == <<<<"start", "process_good">>, <<"start", "process_bad">>,
                 <<"start", "review_needed">>, <<"process_good", "join">>,
                 <<"process_bad", "join">>, <<"review_needed", "join">>>>

\* a factory: the tasks are created, added and wired in one call
Create(ids, edges, fns) ==
    /\ Building
    /\ heap = <<>>
    /\ tasks' = AddAll(ids, Len(ids))
    /\ heap' = WireAll(NewTasks(ids, fns, 1), AddAll(ids, Len(ids)), edges, Len(edges))
    /\ last' = Returned("create", None)
    /\ UNCHANGED <<execution_history, clock, pc, run, trun, direct_runs, orchestrator, reports, waiting, wires, calls_made>>

\* DataPipelineFactory.create_etl_dag
CreateEtlDag == \E fns \in FactoryBehaviours(EtlIds) :
    Create(EtlIds, EtlEdges, fns)

\* DataPipelineFactory.create_branching_dag
CreateBranchingDag == \E fns \in FactoryBehaviours(BranchIds) :
    Create(BranchIds, BranchEdges, fns)

\* dag.add_task(Task("task", function, retries=retries)) on an empty DAG:
\* a DAG of one task, its retries and its work function chosen by the caller
CreateSingle ==
    /\ Building
    /\ heap = <<>>
    /\ \E retries \in 0..MaxRetries, function \in 1..(MaxRetries + 1) :
         /\ heap' = <<Task("task", function, retries)>>
         /\ tasks' = add_task(tasks, "task", 1)
    /\ last' = Returned("add_task", None)
    /\ UNCHANGED <<execution_history, clock, pc, run, trun, direct_runs, orchestrator,
                   reports, waiting, wires, calls_made>>

\* a validation that is only acted on after the run has been recorded
DagRunRejectLate ==
    /\ last' = Raised("run", <<"ValueError", "DAG validation failed">>)
    /\ execution_history' =
           Append(execution_history,
                  [dag_id |-> "dag",
                   execution_date |-> <<clock + 1>>,
                   duration |-> [type |-> "float", seconds |-> 0, text |-> "none"],
                   task_status |-> <<>>])
    /\ clock' = clock + 1
    /\ UNCHANGED <<heap, tasks, pc, run, trun, direct_runs, orchestrator, reports, waiting, wires, calls_made>>

\* DAG.run, lines 161-162
DagRunReject ==
    /\ last' = Raised("run", <<"ValueError", "DAG validation failed">>)
    /\ UNCHANGED <<heap, tasks, execution_history, clock, pc, run, trun, direct_runs, orchestrator, reports, waiting, wires, calls_made>>

\* a `results` entry some caller put in the context it hands to DAG.run
SeedResults == [seed |-> <<"result", "seed", 1>>]

\* the context argument of DAG.run, as the `results` entry it carries: None
\* (no context, or one without that entry), a caller's own entry, or the
\* entry of the context the latest run returned
ContextArgs(r) == {None, <<SeedResults>>, <<r.results>>}

\* a context set up with setdefault: a `results` entry of the caller is kept
context_results_kept(context) == IF context = None THEN <<>> ELSE context[1]

\* DAG.run, lines 166-171: context.update({..., 'results': {}}) replaces
\* whatever `results` entry the caller's context had
context_results(context) == <<>>

\* DAG.run, lines 166-188
DagRunStart(context) ==
    /\ run' = [n |-> run.n + 1,
               order |-> execution_order(heap, tasks),
               i |-> 1,
               results |-> context_results(context),
               execution_date |-> <<clock + 1>>,
               start_time |-> <<clock + 2>>,
               broke |-> FALSE,
               invoked |-> {}]
    /\ clock' = clock + 2
    /\ pc' = "dag_loop"
    /\ UNCHANGED <<heap, tasks, execution_history, trun, direct_runs, last, orchestrator, reports, waiting, wires, calls_made>>

\* DAG.run, lines 157-188
DagRunBegin ==
    /\ pc = "idle"
    /\ Len(execution_history) < MaxRuns
    /\ \E context \in ContextArgs(run) :
           IF validate_dag(heap, tasks) THEN DagRunStart(context) ELSE DagRunReject

\* the frame of a Task.run: `function` is how the work function behaves
\* under the context of this call
NewTaskRun(o, caller, function) ==
    [obj |-> <<o>>, function |-> function, attempt |-> 0, calls |-> 0, sleeps |-> 0,
     slept |-> 0, caller |-> caller]

\* DAG.run, lines 191-205: one iteration of the execution loop, up to the
\* call of task.run
DagRunStep ==
    /\ pc = "dag_loop"
    /\ ~run.broke
    /\ run.i <= Len(run.order)
    /\ LET o == run.order[run.i]
           us == upstream_status(heap, o)
       IN  IF ShouldExecute(us)
           THEN /\ heap' = task_run_enter(heap, o, clock + 1)
                /\ clock' = clock + 1
                /\ trun' = NewTaskRun(o, "dag", heap[o].function)
                /\ pc' = "task_run"
                /\ run' = run
           ELSE /\ heap' = IF ShouldSkip(us)
                           THEN [heap EXCEPT ![o].status = "skipped"]
                           ELSE heap
                /\ run' = [run EXCEPT !.i = @ + 1]
                /\ UNCHANGED <<clock, trun, pc>>
    /\ UNCHANGED <<tasks, execution_history, direct_runs, last, orchestrator, reports, waiting, wires, calls_made>>

\* a direct call task.run(context) by the caller, lines 47-48
TaskRunDirect(o) ==
    /\ pc = "idle"
    /\ direct_runs < MaxTaskRuns
    /\ o \in 1..Len(heap)
    /\ \E function \in ContextBehaviours(heap, o) :
           trun' = NewTaskRun(o, "direct", function)
    /\ heap' = task_run_enter(heap, o, clock + 1)
    /\ clock' = clock + 1
    /\ pc' = "task_run"
    /\ direct_runs' = direct_runs + 1
    /\ UNCHANGED <<tasks, execution_history, run, last, orchestrator, reports, waiting, wires, calls_made>>

SetItem(f, k, v) == [x \in DOMAIN f \cup {k} |-> IF x = k THEN v ELSE f[x]]

\* DAG.run, line 197: task.run returned
dag_on_return(r, id, ret) ==
    [r EXCEPT !.results = SetItem(@, id, ret), !.i = @ + 1]

\* DAG.run, lines 198-202: task.run raised; the error is recorded and the
\* loop is left
dag_on_raise(r, id, err) ==
    [r EXCEPT !.results = SetItem(@, id, <<"error_record", err>>), !.broke = TRUE]

\* the work function of task o was called
Invoked(r, o) ==
    IF trun.caller = "dag" THEN [r EXCEPT !.invoked = @ \cup {o}] ELSE r

\* Task.run returns `ret` to its caller
TaskRunReturn(r, id, ret) ==
    IF trun.caller = "dag"
    THEN /\ run' = dag_on_return(r, id, ret)
         /\ pc' = "dag_loop"
         /\ last' = last
    ELSE /\ run' = r
         /\ pc' = "idle"
         /\ last' = Returned("task_run", ret)

\* Task.run raises `err` to its caller
TaskRunRaise(r, id, err) ==
    IF trun.caller = "dag"
    THEN /\ run' = dag_on_raise(r, id, err)
         /\ pc' = "dag_loop"
         /\ last' = last
    ELSE /\ run' = r
         /\ pc' = "idle"
         /\ last' = Raised("task_run", err)

\* Task.run, lines 52-77: one iteration of the retry loop, from the top of
\* the loop or from the wait of line 70 when it ends, up to the return, the
\* raise or the entry of the next wait (time.sleep has been called with its
\* argument); or the fall through to `return None`
TaskRunAttempt ==
    /\ pc = "task_run"
    /\ LET o == trun.obj[1]
           id == heap[o].task_id
           k == trun.attempt + 1
       IN  IF HasAttempt(trun.attempt, heap[o].retries)
           THEN IF FunctionReturns(trun.function, k)
                THEN /\ heap' = task_run_success(heap, o, k, clock + 1)
                     /\ clock' = clock + 1
                     /\ trun' = [trun EXCEPT !.calls = @ + 1]
                     /\ TaskRunReturn(Invoked(run, o), id, <<"result", id, k>>)
                ELSE IF RetryAgain(trun.attempt, heap[o].retries)
                THEN /\ heap' = task_run_error(heap, o, k)
                     /\ trun' = [trun EXCEPT !.calls = @ + 1, !.sleeps = @ + 1,
                                             !.slept = @ + retry_wait(heap[o].retry_delay,
                                                                      trun.attempt),
                                             !.attempt = @ + 1]
                     /\ run' = Invoked(run, o)
                     /\ UNCHANGED <<clock, pc, last>>
                ELSE /\ heap' = task_run_failed(task_run_error(heap, o, k), o, clock + 1)
                     /\ clock' = clock + 1
                     /\ trun' = [trun EXCEPT !.calls = @ + 1]
                     /\ TaskRunRaise(Invoked(run, o), id, <<"error", id, k>>)
           ELSE /\ TaskRunReturn(run, id, None)
                /\ UNCHANGED <<heap, clock, trun>>
    /\ UNCHANGED <<tasks, execution_history, direct_runs, orchestrator, reports, waiting, wires, calls_made>>

\* the exceptions that are not an Exception: `except Exception` (Task.run,
\* line 66; DAG.run, line 198) does not catch them
Escapes == {"KeyboardInterrupt", "SystemExit"}

\* Task.run is left by exception e, which no handler catches: the caller of
\* Task.run, or of the DAG.run that called it, gets it
TaskRunEscape(e) ==
    /\ pc' = "idle"
    /\ last' = Raised(IF trun.caller = "dag" THEN "run" ELSE "task_run",
                      <<"BaseException", e>>)

\* Task.run, line 55: the call of the work function leaves by an exception
\* that is not an Exception (the function raises it, or SIGINT arrives
\* during the call); the task stays running, nothing else is recorded
TaskRunCallEscapes(e) ==
    /\ pc = "task_run"
    /\ HasAttempt(trun.attempt, heap[trun.obj[1]].retries)
    /\ trun' = [trun EXCEPT !.calls = @ + 1]
    /\ run' = Invoked(run, trun.obj[1])
    /\ TaskRunEscape(e)
    /\ UNCHANGED <<heap, tasks, execution_history, clock, direct_runs, orchestrator,
                   reports, waiting, wires, calls_made>>

\* Task.run, line 70: Task.run is in time.sleep(retry_delay), after a failed
\* attempt whose error is recorded (the state TaskRunAttempt's retry branch
\* leaves), and SIGINT arrives: the wait is left by KeyboardInterrupt, no
\* further call of the work function is made and the task stays running
TaskRunWaitInterrupted ==
    /\ pc = "task_run"
    /\ trun.attempt > 0
    /\ TaskRunEscape("KeyboardInterrupt")
    /\ UNCHANGED <<heap, tasks, execution_history, clock, run, trun, direct_runs,
                   orchestrator, reports, waiting, wires, calls_made>>

\* DAG.run, line 241: return context, which is reached when the loop has
\* ended and when it was left by the break of line 202
dag_run_return(r) == Returned("run", <<"context">>)

\* a run that keeps only its own record: self.execution_history = [record]
DagRunEndReplace ==
    /\ pc = "dag_loop"
    /\ run.broke \/ run.i > Len(run.order)
    /\ LET end_time == clock + 1
           duration == end_time - run.start_time[1]
       IN  execution_history' =
               <<execution_record(heap, run, SummaryDuration(heap, run.order, duration))>>
    /\ clock' = clock + 1
    /\ pc' = "idle"
    /\ last' = dag_run_return(run)
    /\ UNCHANGED <<heap, tasks, run, trun, direct_runs, orchestrator, reports, waiting, wires, calls_made>>

\* DAG.run, lines 207-241
DagRunEnd ==
    /\ pc = "dag_loop"
    /\ run.broke \/ run.i > Len(run.order)
    /\ LET end_time == clock + 1
           duration == end_time - run.start_time[1]
       IN  execution_history' =
               Append(execution_history,
                      execution_record(heap, run, SummaryDuration(heap, run.order, duration)))
    /\ clock' = clock + 1
    /\ pc' = "idle"
    /\ last' = dag_run_return(run)
    /\ UNCHANGED <<heap, tasks, run, trun, direct_runs, orchestrator, reports, waiting, wires, calls_made>>

\* ---------------------------------------------------------- specifications

\* Execution: a DAG made by a factory, or a DAG of one task with any retry
\* policy, is run; its tasks are also run directly.
Next ==
    \/ CreateEtlDag
    \/ CreateBranchingDag
    \/ CreateSingle
    \/ DagRunBegin
    \/ DagRunStep
    \/ DagRunEnd
    \/ \E o \in 1..Len(heap) : TaskRunDirect(o)
    \/ TaskRunAttempt
    \/ \E e \in Escapes : TaskRunCallEscapes(e)
    \/ TaskRunWaitInterrupted

Spec == Init /\ [][Next]_vars

\* Graph building: any graph over FreeIds is built with add_task and
\* set_dependencies, tasks are created without being added and wired by
\* the caller with add_upstream, and the graph is validated and run.
GraphNext ==
    \/ \E i \in 1..Len(FreeIds) : NewTask(FreeIds[i], 1, DefaultRetries)
    \/ \E o \in 1..Len(heap) : AddTask(o)
    \/ \E self \in 1..Len(heap), task \in 1..Len(heap) : AddUpstream(self, task)
    \/ \E i \in 1..Len(FreeIds), j \in 1..Len(FreeIds) : SetDependencies(FreeIds[i], FreeIds[j])
    \/ DagRunBegin
    \/ DagRunStep
    \/ DagRunEnd

GraphSpec == Init /\ [][GraphNext]_vars

\* orchestrator.log_step(step, status, details), called by the caller
LogStep(step, status) ==
    /\ pc = "idle"
    /\ calls_made < MaxCalls
    /\ calls_made' = calls_made + 1
    /\ orchestrator' = log_step(orchestrator, clock + 1, step, status, "Testing")
    /\ clock' = clock + 1
    /\ last' = Returned("log_step", None)
    /\ UNCHANGED <<heap, tasks, execution_history, pc, run, trun, direct_runs, reports,
                   waiting, wires>>

\* orchestrator.run_step(step_name, command), line 55: the call raises
\* TypeError, or logs STARTED and waits for the command
RunStepCall(step_name, command) ==
    /\ pc = "idle"
    /\ calls_made < MaxCalls
    /\ calls_made' = calls_made + 1
    /\ IF Joins(command)
       THEN /\ orchestrator' = run_step_started(orchestrator, clock + 1, step_name)
            /\ clock' = clock + 1
            /\ waiting' = [step_name |-> step_name, caller |-> "direct", i |-> 0]
            /\ pc' = "run_step"
            /\ last' = last
       ELSE /\ last' = Raised("run_step", <<"TypeError">>)
            /\ UNCHANGED <<orchestrator, clock, waiting, pc>>
    /\ UNCHANGED <<heap, tasks, execution_history, run, trun, direct_runs, reports, wires>>

\* run_step, lines 57-75: the command of a run_step called directly has
\* ended, or the wait for it was interrupted
RunStepReturn(outcome) ==
    /\ pc = "run_step"
    /\ waiting.caller = "direct"
    /\ LET r == run_step_ended(orchestrator, clock, waiting.step_name, outcome)
       IN  /\ orchestrator' = r.orchestrator
           /\ clock' = r.now
           /\ last' = [op |-> "run_step", raised |-> r.raised, ret |-> r.ret]
    /\ pc' = "idle"
    /\ waiting' = NoWait
    /\ UNCHANGED <<heap, tasks, execution_history, run, trun, direct_runs, reports, wires, calls_made>>

\* orchestrator.generate_pipeline_report(): the whole call
GenerateReport(db, writable) ==
    /\ pc = "idle"
    /\ calls_made < MaxCalls
    /\ calls_made' = calls_made + 1
    /\ LET g == generate_pipeline_report(orchestrator, clock, db, writable)
       IN  /\ reports' = reports \o g.written
           /\ clock' = g.now
           /\ last' = IF g.raised
                      THEN Raised("generate_pipeline_report", <<"OSError">>)
                      ELSE Returned("generate_pipeline_report", None)
    /\ UNCHANGED <<heap, tasks, execution_history, pc, run, trun, direct_runs,
                   orchestrator, waiting, wires>>

\* orchestrator.run_full_pipeline(days), lines 81-91, on a new orchestrator
\* as in main() or on one used before: start_time is set and the first step
\* is started; its command is a list of strings
RunFullPipelineCall ==
    /\ pc = "idle"
    /\ calls_made < MaxCalls
    /\ calls_made' = calls_made + 1
    /\ orchestrator' = run_step_started([orchestrator EXCEPT !.start_time = <<clock + 1>>],
                                        clock + 2, StepNames[1])
    /\ clock' = clock + 2
    /\ waiting' = [step_name |-> StepNames[1], caller |-> "run_full_pipeline", i |-> 1]
    /\ pc' = "run_step"
    /\ UNCHANGED <<heap, tasks, execution_history, run, trun, direct_runs, last, reports, wires>>

\* run_full_pipeline, lines 89-133: the command of the current step has
\* ended, or the wait for it was interrupted; the pipeline goes on to its
\* next wait or to its end
RunFullPipelineStep(outcome, db, writable) ==
    /\ pc = "run_step"
    /\ waiting.caller = "run_full_pipeline"
    /\ LET r == run_full_pipeline_resumed(orchestrator, clock, waiting.i, outcome, db,
                                          writable)
       IN  /\ orchestrator' = r.orchestrator
           /\ reports' = reports \o r.written
           /\ clock' = r.now
           /\ IF r.i = 0
              THEN /\ pc' = "idle"
                   /\ waiting' = NoWait
                   /\ last' = [op |-> "run_full_pipeline", raised |-> r.raised,
                               ret |-> r.ret]
              ELSE /\ pc' = pc
                   /\ waiting' = [waiting EXCEPT !.i = r.i, !.step_name = StepNames[r.i]]
                   /\ last' = last
    /\ UNCHANGED <<heap, tasks, execution_history, run, trun, direct_runs, wires, calls_made>>

\* The capstone orchestrator: entries are logged, steps are run, reports are
\* made and the full pipeline is run, one call after the other on the same
\* orchestrator, each command with any outcome.
PipeNext ==
    \/ \E step \in LoggedSteps, status \in Statuses : LogStep(step, status)
    \/ \E i \in 1..Len(StepNames), command \in Commands : RunStepCall(StepNames[i], command)
    \/ \E outcome \in Outcomes : RunStepReturn(outcome)
    \/ \E db \in Databases, writable \in BOOLEAN : GenerateReport(db, writable)
    \/ RunFullPipelineCall
    \/ \E outcome \in Outcomes, db \in Databases, writable \in BOOLEAN :
          RunFullPipelineStep(outcome, db, writable)

PipeSpec == Init /\ [][PipeNext]_vars

\* --------------------------------------------------------------- claims

\* the Task objects the graph holds
Held == Range(Values(tasks))

Downstream(o) == Range(heap[o].downstream_tasks)

\* the objects reached from those of S along downstream references
RECURSIVE ReachableFrom(_, _)
ReachableFrom(S, n) ==
    LET T == S \cup UNION {Downstream(o) : o \in S}
    IN  IF n = 0 \/ T = S THEN S ELSE ReachableFrom(T, n - 1)

\* the dependency edges contain a directed cycle
Cyclic == \E o \in 1..Len(heap) : o \in ReachableFrom(Downstream(o), Len(heap))

\* a DAG.run has just returned its context
RunReturned == pc = "idle" /\ last.op = "run" /\ last.raised = None
\* the latest call was left by an exception that is not an Exception
Escaped == last.raised # None /\ last.raised[1] = "BaseException"

\* a direct Task.run has just ended, by a return or by the error of the last
\* attempt: no KeyboardInterrupt or SystemExit cut it short
TaskRunDone == pc = "idle" /\ last.op = "task_run" /\ ~Escaped

Ran == heap[trun.obj[1]]

Before(order, u, v) ==
    \E i \in 1..Len(order), j \in 1..Len(order) :
        i < j /\ order[i] = u /\ order[j] = v

\* C1: for an acyclic graph, the execution order computed by DAG.run holds
\* both ends of every dependency edge u -> v, u before v.
C1_TopologicalOrder ==
    (run.n > 0 /\ ~Cyclic) =>
        \A u \in Held, v \in Held :
            v \in Downstream(u) => Before(run.order, u, v)

\* C2: in a DAG.run that no failure stopped, every task of the execution
\* order that is a root, or whose upstream tasks all succeeded, was executed:
\* its work function was invoked, its status left pending and results has an
\* entry under its id.
C2_ReadyTasksExecuted ==
    (RunReturned /\ ~run.broke) =>
        \A i \in 1..Len(run.order) :
            LET o == run.order[i] IN
            (heap[o].retries >= 1 /\ AllSuccess(upstream_status(heap, o))) =>
                /\ o \in run.invoked
                /\ heap[o].status # "pending"
                /\ heap[o].task_id \in DOMAIN run.results

\* the graph of create_etl_dag, every work function returning on its first
\* call, after its first DAG.run and no direct Task.run
EtlFirstRun ==
    /\ RunReturned
    /\ Len(tasks) = Len(EtlIds)
    /\ \A i \in 1..Len(tasks) : tasks[i].key = EtlIds[i] /\ heap[i].function = 1
    /\ direct_runs = 0
    /\ run.n = 1

\* C3: one DAG.run of extract -> transform -> validate -> load with work
\* functions that succeed at once gives the order [extract, transform,
\* validate, load], four tasks in success, four results keyed by the task
\* ids, and one history entry without a failed task.
C3_EtlEndToEnd ==
    EtlFirstRun =>
        /\ run.order = <<1, 2, 3, 4>>
        /\ \A o \in 1..4 : heap[o].status = "success"
        /\ DOMAIN run.results = Range(EtlIds)
        /\ Len(execution_history) = 1
        /\ \A id \in DOMAIN execution_history[1].task_status :
               execution_history[1].task_status[id] # "failed"

\* C4: validate_dag fails for every graph whose dependency edges contain a
\* directed cycle and succeeds for every acyclic graph.
C4_ValidateIffAcyclic ==
    pc = "idle" => (validate_dag(heap, tasks) <=> ~Cyclic)

\* C5: a DAG.run on a graph that validate_dag rejects raises the
\* configuration error and changes nothing: no task field, no history entry,
\* no run or task frame, no clock reading.
C5_RejectedRunHasNoEffect ==
    [][(DagRunBegin /\ ~validate_dag(heap, tasks)) =>
          /\ last'.op = "run"
          /\ last'.raised = <<"ValueError", "DAG validation failed">>
          /\ heap' = heap
          /\ tasks' = tasks
          /\ execution_history' = execution_history
          /\ run' = run
          /\ trun' = trun
          /\ clock' = clock
          /\ pc' = "idle"]_vars

\* a DAG.run was rejected for a cycle below a root
C5_Witness ==
    /\ pc = "idle"
    /\ last = Raised("run", <<"ValueError", "DAG validation failed">>)
    /\ ~validate_dag(heap, tasks)
    /\ Len(heap) >= 2
    /\ execution_history = <<>>

\* C6: a Task.run with retries n >= 1 whose work function raises on calls
\* 1..k-1 and returns on call k <= n calls it exactly k times, ends in
\* success, stores and returns the value of call k, and does not raise.
C6_RetryUntilSuccess ==
    (TaskRunDone /\ Ran.retries >= 1 /\ trun.function <= Ran.retries) =>
        /\ trun.calls = trun.function
        /\ Ran.status = "success"
        /\ Ran.result = <<"result", Ran.task_id, trun.function>>
        /\ last.ret = <<"result", Ran.task_id, trun.function>>
        /\ last.raised = None

\* a Task.run that succeeded on its second call, after one failure
C6_Witness ==
    /\ TaskRunDone
    /\ Ran.retries >= 2
    /\ trun.function = 2
    /\ trun.calls = 2
    /\ Ran.status = "success"

\* C7: a Task.run with retries n >= 1 whose work function raises on every
\* call calls it exactly n times, ends in failed with its end time set and
\* its error that of call n, and raises that error to its caller.
C7_RetryExhausted ==
    (TaskRunDone /\ Ran.retries >= 1 /\ trun.function > Ran.retries) =>
        /\ trun.calls = Ran.retries
        /\ Ran.status = "failed"
        /\ Ran.end_time = <<clock>>
        /\ Ran.error = <<"error", Ran.task_id, Ran.retries>>
        /\ last.raised = <<"error", Ran.task_id, Ran.retries>>
        /\ last.ret = None

\* a Task.run that failed after two calls
C7_Witness ==
    /\ TaskRunDone
    /\ Ran.retries = 2
    /\ trun.function > 2
    /\ trun.calls = 2
    /\ Ran.status = "failed"

\* a Task.run has just raised the error of its last attempt to its caller
RetriesExhausted == TaskRunDone /\ last.raised # None /\ Ran.status = "failed"

\* C9: when a task exhausts its retries in a Task.run that DAG.run called,
\* DAG.run signals a task-execution error to its caller instead of returning
\* normally: what DAG.run does with the error Task.run raises to it (lines
\* 198-202, the loop is left) and from there to its end (line 241) gives its
\* caller an exception.
C9_RunSignalsTaskError ==
    RetriesExhausted =>
        LET r == dag_on_raise(run, Ran.task_id, last.raised)
        IN  r.broke /\ dag_run_return(r).raised # None

\* T has exactly one upstream task, and it is failed
OnlyUpstreamFailed(h, t) ==
    /\ Len(h[t].upstream_tasks) = 1
    /\ h[h[t].upstream_tasks[1]].status = "failed"

InDagRun == pc = "dag_loop" \/ (pc = "task_run" /\ trun.caller = "dag")

\* C10: a task whose only upstream task ends a DAG.run failed is skipped
\* after that run.
C10_SkippedAfterFailedUpstream ==
    RunReturned =>
        \A t \in Held : OnlyUpstreamFailed(heap, t) => heap[t].status = "skipped"

\* C11: add_task with a task whose id the graph already holds fails with a
\* configuration error and leaves the graph as it was: the task registered
\* under that id before the call is still the one the graph holds.
C11_DuplicateAddRejected ==
    [][\A o \in 1..Len(heap) :
          (HasKey(tasks, heap[o].task_id) /\ AddTask(o)) =>
              /\ last'.raised # None
              /\ tasks' = tasks]_vars

\* C12: set_dependencies with an id the graph does not hold raises the
\* task-not-found error and changes no task's upstream or downstream list,
\* that of the id that is held included.
C12_MissingTaskRejected ==
    [][\A i \in 1..Len(FreeIds), j \in 1..Len(FreeIds) :
          (/\ ~DependencyFound(tasks, FreeIds[i], FreeIds[j])
           /\ SetDependencies(FreeIds[i], FreeIds[j])) =>
              /\ last' = Raised("set_dependencies", <<"ValueError", "Task not found">>)
              /\ heap' = heap
              /\ tasks' = tasks]_vars

\* a set_dependencies was rejected on a graph that holds wired tasks and
\* lacks an id
C12_Witness ==
    /\ pc = "idle"
    /\ last = Raised("set_dependencies", <<"ValueError", "Task not found">>)
    /\ Len(tasks) = 2
    /\ EdgeCount(heap, Len(heap)) >= 1

RECURSIVE Count(_, _)
Count(s, x) ==
    IF s = <<>> THEN 0
    ELSE (IF Head(s) = x THEN 1 ELSE 0) + Count(Tail(s), x)

\* C13: after any sequence of add_task and set_dependencies calls, for the
\* tasks A and B the graph holds, A is in B's upstream list as many times as
\* B is in A's downstream list, and every task a held task's list refers to
\* is the task the graph holds under that id.  (wires = 0: the caller has
\* called add_upstream on no task itself.)
C13_AdjacencyConsistent ==
    (pc = "idle" /\ wires = 0) =>
        /\ \A a \in Held, b \in Held :
               Count(heap[b].upstream_tasks, a) = Count(heap[a].downstream_tasks, b)
        /\ \A o \in Held :
               \A t \in Range(heap[o].upstream_tasks) \cup Range(heap[o].downstream_tasks) :
                   get_task(tasks, heap[t].task_id) = <<t>>

\* C14: execution_history is append-only and has one entry per DAG.run that
\* passed validation, in run order, whatever the statuses of the tasks: no
\* step removes or changes an entry, a run adds nothing before it ends, and
\* after k such runs the history has k entries.
C14_HistoryAppendOnly ==
    [][/\ Len(execution_history') >= Len(execution_history)
       /\ SubSeq(execution_history', 1, Len(execution_history)) = execution_history
       /\ Len(execution_history') = IF InDagRun' THEN run'.n - 1 ELSE run'.n]_vars

\* two runs are recorded, the second with a failed task, the first without
C14_Witness ==
    /\ RunReturned
    /\ Len(execution_history) = 2
    /\ \E id \in DOMAIN execution_history[2].task_status :
           /\ execution_history[2].task_status[id] = "failed"
           /\ execution_history[1].task_status[id] = "pending"

\* C15: results is empty when a DAG.run starts, whatever context the caller
\* hands in, and at every moment of a run results has entries only for tasks
\* whose work function was invoked during that run.
C15_ResultsPerRun ==
    [][/\ (DagRunBegin /\ validate_dag(heap, tasks)) => run'.results = <<>>
       /\ DOMAIN run'.results \subseteq {heap'[o].task_id : o \in run'.invoked}]_vars

\* a second run has returned, a task holding a result stored before it
C15_Witness ==
    /\ RunReturned
    /\ run.n = 2
    /\ run.results = <<>>
    /\ \E o \in Held : heap[o].result # None

AllowedChanges ==
    {<<"pending", "running">>, <<"running", "success">>,
     <<"running", "failed">>, <<"pending", "skipped">>}

\* C16 as claimed: across any sequence of DAG.run and Task.run calls, every
\* change of a task's status is pending -> running, running -> success,
\* running -> failed or pending -> skipped.
C16_StatusTransitions ==
    [][\A o \in 1..Len(heap) :
          heap'[o].status # heap[o].status =>
              <<heap[o].status, heap'[o].status>> \in AllowedChanges]_vars

\* C17: run_step never raises and appends exactly two entries for its step,
\* STARTED and then COMPLETED (returning True, exit code 0) or FAILED
\* (returning False, another exit code or a command that cannot be
\* launched); the earlier entries are unchanged.
C17_RunStepLogsTwice ==
    [][/\ \A i \in 1..Len(StepNames), command \in Commands :
              RunStepCall(StepNames[i], command) =>
                  LET before == orchestrator.pipeline_log
                      after == orchestrator'.pipeline_log
                      n == Len(before)
                  IN  /\ pc' = "run_step"
                      /\ last' = last
                      /\ Len(after) = n + 1
                      /\ SubSeq(after, 1, n) = before
                      /\ after[n + 1].step = StepNames[i]
                      /\ after[n + 1].status = "STARTED"
       /\ \A outcome \in Outcomes :
              RunStepReturn(outcome) =>
                  LET before == orchestrator.pipeline_log
                      after == orchestrator'.pipeline_log
                      n == Len(before)
                  IN  /\ last'.raised = None
                      /\ Len(after) = n + 1
                      /\ SubSeq(after, 1, n) = before
                      /\ before[n].step = waiting.step_name
                      /\ before[n].status = "STARTED"
                      /\ after[n + 1].step = waiting.step_name
                      /\ IF outcome = "exit_0"
                         THEN after[n + 1].status = "COMPLETED" /\ last'.ret = <<TRUE>>
                         ELSE after[n + 1].status = "FAILED" /\ last'.ret = <<FALSE>>]_vars

AllowedChangesRerun ==
    AllowedChanges \cup {<<"success", "running">>, <<"failed", "running">>}

\* C16 as amended: every change of a task's status is pending -> running,
\* running -> success, running -> failed, pending -> skipped or, when a task
\* that has already run is run again, success -> running or failed ->
\* running.
C16_StatusTransitionsRerun ==
    [][\A o \in 1..Len(heap) :
          heap'[o].status # heap[o].status =>
              <<heap[o].status, heap'[o].status>> \in AllowedChangesRerun]_vars

\* a task that ended a Task.run in success is running again
C16_Witness ==
    /\ pc = "task_run"
    /\ direct_runs = 2
    /\ heap[trun.obj[1]].status = "running"
    /\ heap[trun.obj[1]].result # None
    /\ heap[trun.obj[1]].end_time # None

\* the history entry of the run that has just returned
LastRecord == execution_history[Len(execution_history)]

C21_DurationIsRunTotal ==
    RunReturned =>
        /\ LastRecord.duration.type = "float"
        /\ LastRecord.duration.seconds = clock - run.start_time[1]

\* the failed calls of the work function in the latest Task.run
FailedCalls == IF Ran.status = "success" THEN trun.calls - 1 ELSE trun.calls

\* C22: in Task.run a wait of retry_delay happens after each failed attempt
\* that is not the last allowed one and nowhere else: a step waits only when
\* the attempt it made failed and another attempt is left, and a Task.run
\* with f failed attempts has waited f times when it ends in success and
\* f - 1 times when it ends in failed, retry_delay seconds each time.
C22_WaitsBetweenAttempts ==
    [][/\ trun'.sleeps > trun.sleeps =>
              /\ pc = "task_run"
              /\ trun'.sleeps = trun.sleeps + 1
              /\ ~FunctionReturns(trun.function, trun.attempt + 1)
              /\ trun.attempt + 1 < Ran.retries
              /\ trun'.calls = trun.calls + 1
       /\ (TaskRunDone /\ Ran.retries >= 1) =>
              /\ trun.sleeps = IF Ran.status = "success"
                               THEN FailedCalls ELSE FailedCalls - 1
              /\ trun.slept = trun.sleeps * Ran.retry_delay]_vars

\* a Task.run that failed three times and waited twice
C22_Witness ==
    /\ TaskRunDone
    /\ Ran.status = "failed"
    /\ trun.calls = 3
    /\ trun.sleeps = 2
    /\ trun.slept = 2 * DefaultRetryDelay

\* held tasks that no set_dependencies or add_upstream call was wired to
Unwired == {o \in Held : heap[o].upstream_tasks = <<>> /\ heap[o].downstream_tasks = <<>>}

Position(o) == CHOOSE i \in 1..Len(tasks) : tasks[i].obj = o

\* C27: the execution order computed inside DAG.run is exactly the root
\* tasks, those held by the graph with an empty upstream list, each once, in
\* add_task insertion order; no task with an upstream task is in the order.
C27_OrderIsRoots ==
    run.n > 0 =>
        /\ Range(run.order) = {o \in Held : heap[o].upstream_tasks = <<>>}
        /\ \A i \in 1..Len(run.order), j \in 1..Len(run.order) :
               i < j => Position(run.order[i]) < Position(run.order[j])

\* a run on a graph with two roots, the one made later added first, and a
\* task downstream of the second
C27_Witness ==
    /\ RunReturned
    /\ Len(run.order) = 2
    /\ run.order[1] > run.order[2]
    /\ Len(tasks) = 3
    /\ heap[run.order[2]].downstream_tasks # <<>>

\* C25: in every reachable state a pending task has neither start nor end
\* time, a running task has its start time and no end time, and a task in
\* success or failed has both, the end time not before the start time.
C25_TimestampsMatchStatus ==
    \A o \in 1..Len(heap) :
        LET t == heap[o] IN
        /\ t.status = "pending" => t.start_time = None /\ t.end_time = None
        /\ t.status = "running" => t.start_time # None /\ t.end_time = None
        /\ t.status \in {"success", "failed"} =>
               /\ t.start_time # None
               /\ t.end_time # None
               /\ t.end_time[1] > t.start_time[1]

\* some task with id x has a task with id y in its downstream list
IdEdge(x, y) ==
    \E o \in 1..Len(heap), p \in 1..Len(heap) :
        heap[o].task_id = x /\ heap[p].task_id = y /\ p \in Downstream(o)

\* the path validate_dag reports for the graph
CyclePath == validate_dag_result(heap, tasks).cycle_path

\* C26: whenever validate_dag detects a cycle, the path of task ids it
\* reports has a dependency edge x -> y for every consecutive pair (x, y),
\* and its last id occurs earlier in the path.
C26_CyclePathIsCycle ==
    (pc = "idle" /\ ~validate_dag(heap, tasks)) =>
        /\ Len(CyclePath) >= 2
        /\ \A i \in 1..(Len(CyclePath) - 1) : IdEdge(CyclePath[i], CyclePath[i + 1])
        /\ \E i \in 1..(Len(CyclePath) - 1) : CyclePath[i] = CyclePath[Len(CyclePath)]

\* a cycle of two tasks below a root: the path is root, x, y, x
C26_Witness ==
    /\ pc = "idle"
    /\ ~validate_dag(heap, tasks)
    /\ Len(CyclePath) = 4
    /\ CyclePath[2] = CyclePath[4]
    /\ CyclePath[3] # CyclePath[2]
    /\ CyclePath[1] \notin {CyclePath[2], CyclePath[3]}

\* C28: a Task.run on a task constructed with retries = 0 never calls the
\* work function, returns None without raising and leaves the task running
\* with no end time and no result; that return value, stored by DAG.run
\* under the task's id, is an empty result, and a task with that task as its
\* upstream is not executed but skipped.
C28_ZeroRetries ==
    (TaskRunDone /\ Ran.retries = 0) =>
        /\ trun.calls = 0
        /\ last.ret = None
        /\ last.raised = None
        /\ Ran.status = "running"
        /\ Ran.start_time # None
        /\ Ran.end_time = None
        /\ Ran.result = None
        /\ dag_on_return(run, Ran.task_id, last.ret).results[Ran.task_id] = None
        /\ ~ShouldExecute(<<Ran.status>>)
        /\ ShouldSkip(<<Ran.status>>)

\* a task with retries = 0 was run twice and is still running
C28_Witness ==
    /\ TaskRunDone
    /\ Ran.retries = 0
    /\ direct_runs = 2
    /\ Ran.status = "running"
    /\ Ran.start_time = <<clock>>

PipelineLog == orchestrator.pipeline_log

\* entry e is the `status` entry of step `step`
IsEntry(e, step, status) == e.step = step /\ e.status = status

\* C29: run_full_pipeline starts its steps in the order Generate Sample
\* Data, Transform Data, Load to Database, each after the one before logged
\* COMPLETED; at the first step that logs FAILED it starts no later step,
\* logs Pipeline FAILED as the last entry and returns False; it returns True
\* only when the three steps logged COMPLETED, and then the last entry is
\* Pipeline COMPLETED.  Step by step: the call starts the first step; when
\* the command of step i has ended the call either logs COMPLETED for it and
\* starts step i + 1, or logs FAILED for it and Pipeline FAILED and returns
\* False, or, i being the third step, logs COMPLETED for it and Pipeline
\* COMPLETED and returns True, or raises and starts nothing.
C29_StepsInOrder ==
    [][/\ RunFullPipelineCall =>
              /\ PipelineLog' = Append(PipelineLog, PipelineLog'[Len(PipelineLog')])
              /\ IsEntry(PipelineLog'[Len(PipelineLog')], StepNames[1], "STARTED")
       /\ (pc = "run_step" /\ waiting.caller = "run_full_pipeline") =>
              LET i == waiting.i
                  n == Len(PipelineLog)
                  after == PipelineLog'
              IN  /\ IsEntry(PipelineLog[n], StepNames[i], "STARTED")
                  /\ SubSeq(after, 1, n) = PipelineLog
                  /\ \/ /\ pc' = "run_step"
                        /\ i < Len(StepNames)
                        /\ waiting'.i = i + 1
                        /\ Len(after) = n + 2
                        /\ IsEntry(after[n + 1], StepNames[i], "COMPLETED")
                        /\ IsEntry(after[n + 2], StepNames[i + 1], "STARTED")
                     \/ /\ pc' = "idle"
                        /\ last' = Returned("run_full_pipeline", <<FALSE>>)
                        /\ Len(after) = n + 2
                        /\ IsEntry(after[n + 1], StepNames[i], "FAILED")
                        /\ IsEntry(after[n + 2], "Pipeline", "FAILED")
                     \/ /\ pc' = "idle"
                        /\ last' = Returned("run_full_pipeline", <<TRUE>>)
                        /\ i = Len(StepNames)
                        /\ Len(after) = n + 2
                        /\ IsEntry(after[n + 1], StepNames[i], "COMPLETED")
                        /\ IsEntry(after[n + 2], "Pipeline", "COMPLETED")
                     \/ /\ pc' = "idle"
                        /\ last'.op = "run_full_pipeline"
                        /\ last'.raised # None
                        /\ \A j \in (n + 1)..Len(after) :
                               after[j].status \notin {"STARTED", "FAILED"}]_vars

\* the pipeline stopped at its second step, whose command exited non-zero,
\* on an orchestrator whose earlier run_full_pipeline had failed at once
C29_Witness ==
    /\ pc = "idle"
    /\ last = Returned("run_full_pipeline", <<FALSE>>)
    /\ Len(PipelineLog) = 8
    /\ IsEntry(PipelineLog[3], "Pipeline", "FAILED")
    /\ IsEntry(PipelineLog[7], StepNames[2], "FAILED")
    /\ PipelineLog[7].details = "Error"
    /\ PipelineLog[8].details = FailureDetails[2]

\* the report the latest generate_pipeline_report call wrote
LastReport == reports[Len(reports)][1]

\* C30 as claimed: in a run_full_pipeline whose three steps succeed, the
\* report is made before end_time is set and before Pipeline COMPLETED is
\* logged, so it counts total_steps = 6, steps_completed = 3, steps_failed =
\* 0, success_rate = 50, and has no end_time and no duration_seconds.
C30_ReportBeforeCompletion ==
    (pc = "idle" /\ last = Returned("run_full_pipeline", <<TRUE>>)) =>
        /\ LastReport.total_steps = 6
        /\ LastReport.steps_completed = 3
        /\ LastReport.steps_failed = 0
        /\ LastReport.success_rate.num = 50 * LastReport.success_rate.den
        /\ LastReport.end_time = None
        /\ LastReport.duration_seconds = None

\* C30 as amended: in a run_full_pipeline whose three steps succeed, the
\* report is made before end_time is set and before Pipeline COMPLETED is
\* logged: its steps are the log without that last entry, its counts are
\* those of these steps, and its end_time is the one the orchestrator had
\* before, its duration_seconds counted from that one; on an orchestrator
\* that was new when the call was made that is total_steps = 6,
\* steps_completed = 3, steps_failed = 0, success_rate = 50, no end_time and
\* no duration_seconds.
C30_ReportBeforeEnd ==
    [][(pc = "run_step" /\ pc' = "idle"
            /\ last' = Returned("run_full_pipeline", <<TRUE>>)) =>
          LET written == reports'[Len(reports')][1]
              after == PipelineLog'
              m == Len(after) - 1
          IN  /\ Len(reports') = Len(reports) + 1
              /\ IsEntry(after[m + 1], "Pipeline", "COMPLETED")
              /\ written.steps = SubSeq(after, 1, m)
              /\ written.total_steps = m
              /\ written.steps_completed = CountStatus(after, "COMPLETED") - 1
              /\ written.steps_failed = CountStatus(after, "FAILED")
              /\ written.success_rate.num * m = 100 * written.steps_completed * written.success_rate.den
              /\ written.start_time = orchestrator'.start_time
              /\ written.end_time = orchestrator.end_time
              /\ written.duration_seconds =
                     IF orchestrator.end_time = None THEN None
                     ELSE <<orchestrator.end_time[1] - orchestrator'.start_time[1]>>
              /\ orchestrator'.end_time = <<clock' - 1>>
              /\ m = 6 =>
                     /\ written.total_steps = 6
                     /\ written.steps_completed = 3
                     /\ written.steps_failed = 0
                     /\ written.success_rate.num = 50 * written.success_rate.den
                     /\ written.end_time = None
                     /\ written.duration_seconds = None]_vars

\* the full pipeline returned True twice on the same orchestrator: the
\* second report holds the thirteen entries before the last one and the
\* end_time of the first call, which is before the second call's start_time
C30_Witness ==
    /\ pc = "idle"
    /\ last = Returned("run_full_pipeline", <<TRUE>>)
    /\ Len(PipelineLog) = 14
    /\ Len(reports) = 2
    /\ reports[1] # None
    /\ reports[2] # None
    /\ reports[1][1].total_steps = 6
    /\ reports[1][1].end_time = None
    /\ LastReport.steps = SubSeq(PipelineLog, 1, 13)
    /\ LastReport.end_time # None
    /\ LastReport.duration_seconds[1] < 0

====
